---------------------------- MODULE Spec2Model ----------------------------
(***************************************************************************)
(* Live attendance check-in / check-out and finalization                   *)
(* (src/setup_redis.py) as called by the request handlers of               *)
(* src/YouthGroupAPI.py.                                                   *)
(*                                                                         *)
(* The ephemeral store (Redis) holds, per event, the set                   *)
(* event:<id>:checkedIn and the hashes event:<id>:checkInTimes and         *)
(* event:<id>:checkOutTimes.  The durable store (MySQL) holds the table    *)
(* event_attendance.  Request handlers run concurrently; every Redis       *)
(* command, every MULTI/EXEC pipeline and every MySQL transaction is one   *)
(* atomic step, and a handler is a sequence of such steps.                 *)
(***************************************************************************)
EXTENDS Integers, Sequences, FiniteSets, Bags, TLC

---------------------------------------------------------------------------
(* Bounds of the model *)

(* The requests of a behaviour, and the ticks of the wall clock. *)
MaxCalls == 4
MaxTick == 2

(* Student ids start here: 9 and 10 have decimal strings of two lengths. *)
FirstStudent == 9

(* Resolution of the wall clock: datetime.utcnow() is finer than the       *)
(* second that isoformat(timespec="seconds") keeps.                        *)
TicksPerSecond == 2

(* Two request handlers, two events, two students. *)
Procs == {1, 2}
Events == {1, 2}
Students == {FirstStudent, FirstStudent + 1}

(* Python's None (a SQL NULL once inserted) and the "N/A" of line 66. *)
NULL == -1
NA == -2
NoneStr == << >>

---------------------------------------------------------------------------
(* Conversions *)

RECURSIVE Str(_)
(* str(student_id): the decimal digits of a non-negative integer. *)
Str(n) == IF n < 10 THEN <<n>> ELSE Append(Str(n \div 10), n % 10)

RECURSIVE ParseInt(_)
(* int(student_id_str): the integer a digit string denotes. *)
ParseInt(s) == IF Len(s) = 1 THEN s[1]
               ELSE ParseInt(SubSeq(s, 1, Len(s) - 1)) * 10 + s[Len(s)]

(* The instant rounded up to the next second. *)
IsoFormatRoundingUp(t) == (t + TicksPerSecond - 1) \div TicksPerSecond

(* datetime.utcnow().isoformat(timespec="seconds"): the sub-second part of *)
(* the instant is dropped; the string is represented by its second.        *)
IsoFormat(t) == t \div TicksPerSecond

(* datetime.fromisoformat(string): the instant at the start of the second. *)
FromIsoFormat(s) == s * TicksPerSecond

---------------------------------------------------------------------------
(* Redis hashes: a hash is a function from its fields to their values;     *)
(* a key that does not exist is the empty hash or the empty set.           *)

EmptyHash == [k \in {} |-> NULL]

HSet(h, k, v) == [x \in (DOMAIN h) \cup {k} |-> IF x = k THEN v ELSE h[x]]

HDel(h, k) == [x \in (DOMAIN h) \ {k} |-> h[x]]

(* dict.get(k, default) on the reply of HGETALL *)
DictGet(h, k, default) == IF k \in DOMAIN h THEN h[k] ELSE default

---------------------------------------------------------------------------
VARIABLES
    clock,          \* the wall clock when it was last read, in ticks
    checkedIn,      \* Redis: event -> set event:<id>:checkedIn
    checkInTimes,   \* Redis: event -> hash event:<id>:checkInTimes
    checkOutTimes,  \* Redis: event -> hash event:<id>:checkOutTimes
    attendance,     \* MySQL: the rows of event_attendance, a bag
    uniqueKey,      \* MySQL: whether (EventID, StudentID) is UNIQUE
    pc,             \* handler -> where it stands
    ev,             \* handler -> event_id of its request
    stu,            \* handler -> student_id of its request
    now,            \* handler -> the string `now` of line 17
    snap,           \* handler -> what its pipeline read
    ret,            \* handler -> what it answers
    calls,          \* the number of requests started
    usedEvents,     \* the number of events requests have named
    usedStudents    \* the number of students requests have named

redis == <<checkedIn, checkInTimes, checkOutTimes>>
locals == <<pc, ev, stu, now, snap, ret>>
vars == <<clock, checkedIn, checkInTimes, checkOutTimes, attendance,
          uniqueKey, pc, ev, stu, now, snap, ret, calls, usedEvents,
          usedStudents>>

NoSnap == [kind |-> "none"]
NoRet == [kind |-> "none"]

InitWith(unique) ==
    /\ clock = 0
    /\ checkedIn = [e \in Events |-> {}]
    /\ checkInTimes = [e \in Events |-> EmptyHash]
    /\ checkOutTimes = [e \in Events |-> EmptyHash]
    /\ attendance = EmptyBag
    /\ uniqueKey = unique
    /\ pc = [p \in Procs |-> "idle"]
    /\ ev = [p \in Procs |-> 0]
    /\ stu = [p \in Procs |-> 0]
    /\ now = [p \in Procs |-> 0]
    /\ snap = [p \in Procs |-> NoSnap]
    /\ ret = [p \in Procs |-> NoRet]
    /\ calls = 0
    /\ usedEvents = 0
    /\ usedStudents = 0

(* The durable store as the design requires it (spec.md, section 6):       *)
(* event_attendance has a uniqueness constraint on (EventID, StudentID).   *)
Init == InitWith(TRUE)

(* The durable store without that constraint. *)
InitNoUnique == InitWith(FALSE)

(* Handler p stands at `label` and takes the next step.  The answer of a   *)
(* handler that is done is delivered before any other step is taken:       *)
(* delivery touches nothing that is shared.                                *)
At(p, label) == pc[p] = label /\ \A q \in Procs : pc[q] # "done"

Max(a, b) == IF a >= b THEN a ELSE b

(* A request arrives at an idle handler.  Handlers, events and students    *)
(* are interchangeable: the request goes to the first idle handler, and    *)
(* requests name events and students in the order of their first use       *)
(* (s = 0: the request names no student).                                  *)
Accept(p, e, s, first) ==
    /\ At(p, "idle")
    /\ \A q \in Procs : q < p => pc[q] # "idle"
    /\ calls < MaxCalls
    /\ calls' = calls + 1
    /\ e <= usedEvents + 1
    /\ usedEvents' = Max(usedEvents, e)
    /\ s = 0 \/ s <= FirstStudent + usedStudents
    /\ usedStudents' = IF s = 0 THEN usedStudents
                       ELSE Max(usedStudents, s - FirstStudent + 1)
    /\ pc' = [pc EXCEPT ![p] = first]
    /\ ev' = [ev EXCEPT ![p] = e]
    /\ stu' = [stu EXCEPT ![p] = s]

(* The handler has answered; it is idle again. *)
Return(p) ==
    /\ pc[p] = "done"
    /\ pc' = [pc EXCEPT ![p] = "idle"]
    /\ ev' = [ev EXCEPT ![p] = 0]
    /\ stu' = [stu EXCEPT ![p] = 0]
    /\ now' = [now EXCEPT ![p] = 0]
    /\ snap' = [snap EXCEPT ![p] = NoSnap]
    /\ ret' = [ret EXCEPT ![p] = NoRet]
    /\ UNCHANGED <<clock, redis, attendance, uniqueKey, calls, usedEvents, usedStudents>>

(* One handler moves to `next`, answering `r` when next is "done". *)
Goto(p, next) == pc' = [pc EXCEPT ![p] = next]

Answer(p, r) == /\ pc' = [pc EXCEPT ![p] = "done"]
                /\ ret' = [ret EXCEPT ![p] = r]

---------------------------------------------------------------------------
(* student_checkin_edit(event_id, student_id) *)

(* lines 16-25: now = datetime.utcnow().isoformat(timespec="seconds").    *)
(* The wall clock is read here and nowhere else: it stands at t, not       *)
(* earlier than at the previous reading.                                   *)
ToggleBegin(p, e, s, t) ==
    /\ Accept(p, e, s, "t_sismember")
    /\ t >= clock
    /\ clock' = t
    /\ now' = [now EXCEPT ![p] = IsoFormat(t)]
    /\ UNCHANGED <<redis, attendance, uniqueKey, snap, ret>>

(* POST /redis/events/{event_id}/checkin, src/YouthGroupAPI.py 1647-1648 *)
CheckinAnswer(p, status) ==
    [kind |-> "status", status |-> status, student_id |-> stu[p],
     event_id |-> ev[p]]

(* line 27: is_checked_in = r.sismember(checked_in_key, student_id_str) *)
SIsMember(e, s) == Str(s) \in checkedIn[e]

ToggleSismember(p) ==
    /\ At(p, "t_sismember")
    /\ Goto(p, IF SIsMember(ev[p], stu[p]) THEN "t_srem" ELSE "t_sadd")
    /\ UNCHANGED <<clock, redis, attendance, uniqueKey, ev, stu, now, snap, ret, calls, usedEvents, usedStudents>>

(* SREM sent to another key: the set keeps the student. *)
ToggleSremWrongKey(p) ==
    /\ At(p, "t_srem")
    /\ checkInTimes' = [checkInTimes EXCEPT ![ev[p]] = HDel(@, Str(stu[p]))]
    /\ Goto(p, "t_hset_out")
    /\ UNCHANGED <<clock, checkedIn, checkOutTimes, attendance, uniqueKey,
                   ev, stu, now, snap, ret, calls, usedEvents, usedStudents>>

(* line 30: r.srem(checked_in_key, student_id_str) *)
ToggleSrem(p) ==
    /\ At(p, "t_srem")
    /\ checkedIn' = [checkedIn EXCEPT ![ev[p]] = @ \ {Str(stu[p])}]
    /\ Goto(p, "t_hset_out")
    /\ UNCHANGED <<clock, checkInTimes, checkOutTimes, attendance, uniqueKey,
                   ev, stu, now, snap, ret, calls, usedEvents, usedStudents>>

(* The checkout stamped into checkin_times_key. *)
ToggleHsetOutWrongKey(p) ==
    /\ At(p, "t_hset_out")
    /\ checkInTimes' = [checkInTimes EXCEPT ![ev[p]] = HSet(@, Str(stu[p]), now[p])]
    /\ Answer(p, CheckinAnswer(p, "CHECKED OUT"))
    /\ UNCHANGED <<clock, checkedIn, checkOutTimes, attendance, uniqueKey,
                   ev, stu, now, snap, calls, usedEvents, usedStudents>>

(* The check-out that also removes the student's check-in time. *)
ToggleHsetOutPruning(p) ==
    /\ At(p, "t_hset_out")
    /\ checkOutTimes' = [checkOutTimes EXCEPT ![ev[p]] = HSet(@, Str(stu[p]), now[p])]
    /\ checkInTimes' = [checkInTimes EXCEPT ![ev[p]] = HDel(@, Str(stu[p]))]
    /\ Answer(p, CheckinAnswer(p, "CHECKED OUT"))
    /\ UNCHANGED <<clock, checkedIn, attendance, uniqueKey,
                   ev, stu, now, snap, calls, usedEvents, usedStudents>>

(* lines 31-32: r.hset(checkout_times_key, student_id_str, now); return *)
ToggleHsetOut(p) ==
    /\ At(p, "t_hset_out")
    /\ checkOutTimes' = [checkOutTimes EXCEPT ![ev[p]] = HSet(@, Str(stu[p]), now[p])]
    /\ Answer(p, CheckinAnswer(p, "CHECKED OUT"))
    /\ UNCHANGED <<clock, checkedIn, checkInTimes, attendance, uniqueKey,
                   ev, stu, now, snap, calls, usedEvents, usedStudents>>

(* SADD to the checkedIn set of every event. *)
ToggleSaddEveryEvent(p) ==
    /\ At(p, "t_sadd")
    /\ checkedIn' = [e \in Events |-> checkedIn[e] \cup {Str(stu[p])}]
    /\ Goto(p, "t_hset_in")
    /\ UNCHANGED <<clock, checkInTimes, checkOutTimes, attendance, uniqueKey,
                   ev, stu, now, snap, ret, calls, usedEvents, usedStudents>>

(* line 34: r.sadd(checked_in_key, student_id_str) *)
ToggleSadd(p) ==
    /\ At(p, "t_sadd")
    /\ checkedIn' = [checkedIn EXCEPT ![ev[p]] = @ \cup {Str(stu[p])}]
    /\ Goto(p, "t_hset_in")
    /\ UNCHANGED <<clock, checkInTimes, checkOutTimes, attendance, uniqueKey,
                   ev, stu, now, snap, ret, calls, usedEvents, usedStudents>>

(* HSETNX in the place of HSET: the time of the first check-in is kept. *)
ToggleHsetInKeepFirst(p) ==
    /\ At(p, "t_hset_in")
    /\ checkInTimes' = [checkInTimes EXCEPT ![ev[p]] =
                          IF Str(stu[p]) \in DOMAIN @ THEN @
                          ELSE HSet(@, Str(stu[p]), now[p])]
    /\ Goto(p, "t_hdel")
    /\ UNCHANGED <<clock, checkedIn, checkOutTimes, attendance, uniqueKey,
                   ev, stu, now, snap, ret, calls, usedEvents, usedStudents>>

(* The check-in without the HSET of line 35. *)
ToggleHsetInSkipped(p) ==
    /\ At(p, "t_hset_in")
    /\ Goto(p, "t_hdel")
    /\ UNCHANGED <<clock, redis, attendance, uniqueKey,
                   ev, stu, now, snap, ret, calls, usedEvents, usedStudents>>

(* line 35: r.hset(checkin_times_key, student_id_str, now) *)
ToggleHsetIn(p) ==
    /\ At(p, "t_hset_in")
    /\ checkInTimes' = [checkInTimes EXCEPT ![ev[p]] = HSet(@, Str(stu[p]), now[p])]
    /\ Goto(p, "t_hdel")
    /\ UNCHANGED <<clock, checkedIn, checkOutTimes, attendance, uniqueKey,
                   ev, stu, now, snap, ret, calls, usedEvents, usedStudents>>

(* The check-in without the HDEL of line 36. *)
ToggleHdelSkipped(p) ==
    /\ At(p, "t_hdel")
    /\ Answer(p, CheckinAnswer(p, "CHECKED IN"))
    /\ UNCHANGED <<clock, redis, attendance, uniqueKey,
                   ev, stu, now, snap, calls, usedEvents, usedStudents>>

(* lines 36-37: r.hdel(checkout_times_key, student_id_str); return *)
ToggleHdel(p) ==
    /\ At(p, "t_hdel")
    /\ checkOutTimes' = [checkOutTimes EXCEPT ![ev[p]] = HDel(@, Str(stu[p]))]
    /\ Answer(p, CheckinAnswer(p, "CHECKED IN"))
    /\ UNCHANGED <<clock, checkedIn, checkInTimes, attendance, uniqueKey,
                   ev, stu, now, snap, calls, usedEvents, usedStudents>>

Toggle(p) ==
    \/ \E e \in Events, s \in Students, t \in 0..MaxTick : ToggleBegin(p, e, s, t)
    \/ ToggleSismember(p)
    \/ ToggleSrem(p)
    \/ ToggleHsetOut(p)
    \/ ToggleSadd(p)
    \/ ToggleHsetIn(p)
    \/ ToggleHdel(p)

---------------------------------------------------------------------------
(* get_live_attendance(event_id) *)

(* The count taken of the hash of check-in times. *)
LivePipelineWrongCount(e) ==
    [count |-> Cardinality(DOMAIN checkInTimes[e]),
     members |-> checkedIn[e],
     times |-> checkInTimes[e]]

(* lines 54-60: the pipeline (MULTI/EXEC) of SCARD, SMEMBERS, HGETALL *)
LivePipeline(e) ==
    [count |-> Cardinality(checkedIn[e]),
     members |-> checkedIn[e],
     times |-> checkInTimes[e]]

(* The members without a check-in time left out of the list. *)
LiveResultSkipping(e, reply) ==
    [kind |-> "live",
     event_id |-> e,
     checked_in_count |-> reply.count,
     students |-> [m \in reply.members \cap DOMAIN reply.times |->
                     [student_id |-> ParseInt(m),
                      check_in_time |-> reply.times[m]]]]

(* lines 61-68: one entry per member read, in the order of the reply;      *)
(* the list is represented by the function from the member to its entry.   *)
LiveResult(e, reply) ==
    [kind |-> "live",
     event_id |-> e,
     checked_in_count |-> reply.count,
     students |-> [m \in reply.members |->
                     [student_id |-> ParseInt(m),
                      check_in_time |-> DictGet(reply.times, m, NA)]]]

(* GET /redis/events/{event_id}/attendance, src/YouthGroupAPI.py 1613-1630 *)
LiveAttendance(p, e) ==
    /\ Accept(p, e, 0, "done")
    /\ ret' = [ret EXCEPT ![p] = LiveResult(e, LivePipeline(e))]
    /\ UNCHANGED <<clock, redis, attendance, uniqueKey, now, snap>>

---------------------------------------------------------------------------
(* get_random_winner(event_id) and GET .../random-winner *)

NoWinner(e, count) ==
    [kind |-> "winner", event_id |-> e, checked_in_count |-> count,
     student_id |-> NULL]

(* src/YouthGroupAPI.py 1756-1768: get_live_attendance, then the answer    *)
(* without a winner when checked_in_count is 0                             *)
WinnerBegin(p, e) ==
    /\ Accept(p, e, 0, IF LivePipeline(e).count = 0 THEN "done" ELSE "w_srandmember")
    /\ snap' = [snap EXCEPT ![p] = [kind |-> "count", count |-> LivePipeline(e).count]]
    /\ ret' = [ret EXCEPT ![p] = IF LivePipeline(e).count = 0
                                 THEN NoWinner(e, 0) ELSE NoRet]
    /\ UNCHANGED <<clock, redis, attendance, uniqueKey, now>>

(* SRANDMEMBER replaced by a choice among the fields of checkInTimes. *)
SRandMemberOfTimes(e) ==
    IF DOMAIN checkInTimes[e] = {} THEN {NoneStr} ELSE DOMAIN checkInTimes[e]

(* line 164: r.srandmember(key): a member of the set, None (here the      *)
(* empty string, which is no member) of the empty set                      *)
SRandMember(e) == IF checkedIn[e] = {} THEN {NoneStr} ELSE checkedIn[e]

(* SPOP in the place of SRANDMEMBER: the winner leaves the set. *)
WinnerSelectPop(p) ==
    /\ At(p, "w_srandmember")
    /\ \E m \in SRandMember(ev[p]) :
         /\ checkedIn' = [checkedIn EXCEPT ![ev[p]] = @ \ {m}]
         /\ Answer(p, IF m = NoneStr
                      THEN NoWinner(ev[p], snap[p].count)
                      ELSE [kind |-> "winner", event_id |-> ev[p],
                            checked_in_count |-> snap[p].count,
                            student_id |-> ParseInt(m)])
    /\ UNCHANGED <<clock, checkInTimes, checkOutTimes, attendance, uniqueKey,
                   ev, stu, now, snap, calls, usedEvents, usedStudents>>

(* lines 164-167 with src/YouthGroupAPI.py 1770-1804 *)
WinnerSelect(p) ==
    /\ At(p, "w_srandmember")
    /\ \E m \in SRandMember(ev[p]) :
         Answer(p, IF m = NoneStr
                   THEN NoWinner(ev[p], snap[p].count)
                   ELSE [kind |-> "winner", event_id |-> ev[p],
                         checked_in_count |-> snap[p].count,
                         student_id |-> ParseInt(m)])
    /\ UNCHANGED <<clock, redis, attendance, uniqueKey, ev, stu, now, snap, calls, usedEvents, usedStudents>>

Winner(p) ==
    \/ \E e \in Events : WinnerBegin(p, e)
    \/ WinnerSelect(p)

---------------------------------------------------------------------------
(* finalize_event_attendance(event_id) *)

(* lines 94-98: the pipeline (MULTI/EXEC) of SMEMBERS, HGETALL, HGETALL *)
FinalizePipeline(e) ==
    [currently_checked_in |-> checkedIn[e],
     checkin_times |-> checkInTimes[e],
     checkout_times |-> checkOutTimes[e]]

(* lines 119-121: datetime.fromisoformat(x) if x else None *)
ToDatetime(x) == IF x = NULL THEN NULL ELSE FromIsoFormat(x)

(* lines 101, 113-123: one tuple per key of checkin_times; the list is     *)
(* represented by the function from the key to its tuple.                  *)
AttendanceRecords(e, reply) ==
    [k \in DOMAIN reply.checkin_times |->
        [EventID |-> e,
         StudentID |-> ParseInt(k),
         CheckInTime |-> ToDatetime(DictGet(reply.checkin_times, k, NULL)),
         CheckOutTime |-> ToDatetime(DictGet(reply.checkout_times, k, NULL))]]

(* The rows a list of tuples inserts, as a bag. *)
RowsBag(recs) ==
    [r \in {recs[k] : k \in DOMAIN recs} |->
        Cardinality({k \in DOMAIN recs : recs[k] = r})]

(* The rows of the table for one (EventID, StudentID). *)
RowsOf(table, e, s) ==
    {r \in BagToSet(table) : r.EventID = e /\ r.StudentID = s}

CountOf(table, e, s) ==
    BagCardinality([r \in RowsOf(table, e, s) |-> table[r]])

(* A table that refuses no row. *)
DuplicatesNever(table, recs) == FALSE

(* A UNIQUE (EventID, StudentID) refuses a batch that repeats a pair of    *)
(* the table or of the batch itself.                                       *)
Duplicates(table, recs) ==
    \E k \in DOMAIN recs :
        CountOf(table (+) RowsBag(recs), recs[k].EventID, recs[k].StudentID) > 1

(* lines 86-103: read the event's keys; an empty checkin_times goes to the *)
(* deletion of line 105, anything else to the insert.                      *)
FinalizeRead(p, e) ==
    /\ Accept(p, e, 0, IF DOMAIN FinalizePipeline(e).checkin_times = {}
                       THEN "f_delete_empty" ELSE "f_insert")
    /\ snap' = [snap EXCEPT ![p] =
                  [kind |-> "records",
                   records |-> AttendanceRecords(e, FinalizePipeline(e))]]
    /\ UNCHANGED <<clock, redis, attendance, uniqueKey, now, ret>>

(* r.delete(checked_in_key, checkin_times_key, checkout_times_key) *)
DeleteKeys(p) ==
    /\ checkedIn' = [checkedIn EXCEPT ![ev[p]] = {}]
    /\ checkInTimes' = [checkInTimes EXCEPT ![ev[p]] = EmptyHash]
    /\ checkOutTimes' = [checkOutTimes EXCEPT ![ev[p]] = EmptyHash]

(* line 153: the message of the exception raised for a MySQL error *)
MySQLFailure == "Failed to persist attendance to MySQL"

(* What POST /events/{event_id}/finalize-attendance answers when           *)
(* finalize_event_attendance raises: src/YouthGroupAPI.py 1674-1677        *)
FinalizeError(what) == [kind |-> "error", status_code |-> 500, detail |-> what]

(* The answer of lines 106-110 without the deletion of line 105. *)
FinalizeDeleteEmptyKeeping(p) ==
    /\ At(p, "f_delete_empty")
    /\ Answer(p, [kind |-> "finalized", event_id |-> ev[p], records_persisted |-> 0,
                  message |-> "No attendance data found for this event"])
    /\ UNCHANGED <<clock, redis, attendance, uniqueKey, ev, stu, now, snap, calls, usedEvents, usedStudents>>

(* lines 105-110 *)
FinalizeDeleteEmpty(p) ==
    /\ At(p, "f_delete_empty")
    /\ DeleteKeys(p)
    /\ Answer(p, [kind |-> "finalized", event_id |-> ev[p], records_persisted |-> 0,
                  message |-> "No attendance data found for this event"])
    /\ UNCHANGED <<clock, attendance, uniqueKey, ev, stu, now, snap, calls, usedEvents, usedStudents>>

(* REPLACE INTO in the place of INSERT INTO: the rows the table has for    *)
(* the pairs of the batch give way to the rows of the batch.               *)
FinalizeInsertOkReplacing(p) ==
    /\ At(p, "f_insert")
    /\ LET recs == snap[p].records
           kept == {r \in BagToSet(attendance) :
                       \A k \in DOMAIN recs :
                           ~(r.EventID = recs[k].EventID
                               /\ r.StudentID = recs[k].StudentID)}
       IN attendance' = [r \in kept |-> attendance[r]] (+) RowsBag(recs)
    /\ Goto(p, "f_delete")
    /\ UNCHANGED <<clock, redis, uniqueKey, ev, stu, now, snap, ret, calls, usedEvents, usedStudents>>

(* lines 128-139: executemany and commit, one transaction *)
FinalizeInsertOk(p) ==
    /\ At(p, "f_insert")
    /\ ~(uniqueKey /\ Duplicates(attendance, snap[p].records))
    /\ attendance' = attendance (+) RowsBag(snap[p].records)
    /\ Goto(p, "f_delete")
    /\ UNCHANGED <<clock, redis, uniqueKey, ev, stu, now, snap, ret, calls, usedEvents, usedStudents>>

(* The keys deleted although the insert failed. *)
FinalizeInsertFailDeleting(p) ==
    /\ At(p, "f_insert")
    /\ DeleteKeys(p)
    /\ Answer(p, FinalizeError(MySQLFailure))
    /\ UNCHANGED <<clock, attendance, uniqueKey, ev, stu, now, snap, calls, usedEvents, usedStudents>>

(* The failure answered after one row of the batch has been committed. *)
FinalizeInsertFailPartial(p) ==
    /\ At(p, "f_insert")
    /\ \E k \in DOMAIN snap[p].records :
         attendance' = attendance (+) SetToBag({snap[p].records[k]})
    /\ Answer(p, FinalizeError(MySQLFailure))
    /\ UNCHANGED <<clock, redis, uniqueKey, ev, stu, now, snap, calls, usedEvents, usedStudents>>

(* lines 150-153: a mysql.connector.Error (no connection, a timeout, a     *)
(* refused row): rollback, raise                                           *)
FinalizeInsertFail(p) ==
    /\ At(p, "f_insert")
    /\ Answer(p, FinalizeError(MySQLFailure))
    /\ UNCHANGED <<clock, redis, attendance, uniqueKey, ev, stu, now, snap, calls, usedEvents, usedStudents>>

(* The success of lines 144-148 answered without the deletion of line 142. *)
FinalizeDeleteOkKeeping(p) ==
    /\ At(p, "f_delete")
    /\ Answer(p, [kind |-> "finalized", event_id |-> ev[p],
                  records_persisted |-> BagCardinality(RowsBag(snap[p].records)),
                  message |-> "Successfully persisted attendance records to MySQL"])
    /\ UNCHANGED <<clock, redis, attendance, uniqueKey, ev, stu, now, snap, calls, usedEvents, usedStudents>>

(* lines 139-148: records_inserted = cursor.rowcount; delete; return *)
FinalizeDeleteOk(p) ==
    /\ At(p, "f_delete")
    /\ DeleteKeys(p)
    /\ Answer(p, [kind |-> "finalized", event_id |-> ev[p],
                  records_persisted |-> BagCardinality(RowsBag(snap[p].records)),
                  message |-> "Successfully persisted attendance records to MySQL"])
    /\ UNCHANGED <<clock, attendance, uniqueKey, ev, stu, now, snap, calls, usedEvents, usedStudents>>

(* line 142 raising (Redis unreachable): not a mysql.connector.Error, so   *)
(* line 150 does not catch it; the commit of line 137 stands.              *)
FinalizeDeleteFail(p) ==
    /\ At(p, "f_delete")
    /\ Answer(p, FinalizeError("redis"))
    /\ UNCHANGED <<clock, redis, attendance, uniqueKey, ev, stu, now, snap, calls, usedEvents, usedStudents>>

Finalize(p) ==
    \/ \E e \in Events : FinalizeRead(p, e)
    \/ FinalizeDeleteEmpty(p)
    \/ FinalizeInsertOk(p)
    \/ FinalizeInsertFail(p)
    \/ FinalizeDeleteOk(p)
    \/ FinalizeDeleteFail(p)

---------------------------------------------------------------------------
Next ==
    \/ \E p \in Procs : Toggle(p)
    \/ \E p \in Procs, e \in Events : LiveAttendance(p, e)
    \/ \E p \in Procs : Winner(p)
    \/ \E p \in Procs : Finalize(p)
    \/ \E p \in Procs : Return(p)

Spec == Init /\ [][Next]_vars

SpecNoUnique == InitNoUnique /\ [][Next]_vars

(* The requests that write: check-in toggles and finalizes (the snapshot   *)
(* and the random winner change nothing the stores hold), against the      *)
(* durable store with or without the constraint.                           *)
WritersNext ==
    \/ \E p \in Procs : Toggle(p)
    \/ \E p \in Procs : Finalize(p)
    \/ \E p \in Procs : Return(p)

SpecAnyStore == (Init \/ InitNoUnique) /\ [][WritersNext]_vars

---------------------------------------------------------------------------
(* Requests served one after the other: a request is accepted when no      *)
(* other is in progress, and the handler keeps its last answer in sight    *)
(* until it answers again.                                                 *)

Serial == \A p, q \in Procs : p # q => pc[p] = "idle" \/ pc[q] = "idle"

ReturnKeeping(p) ==
    /\ pc[p] = "done"
    /\ pc' = [pc EXCEPT ![p] = "idle"]
    /\ ev' = [ev EXCEPT ![p] = 0]
    /\ stu' = [stu EXCEPT ![p] = 0]
    /\ now' = [now EXCEPT ![p] = 0]
    /\ snap' = [snap EXCEPT ![p] = NoSnap]
    /\ UNCHANGED <<clock, redis, attendance, uniqueKey, ret, calls, usedEvents,
                   usedStudents>>

SeqNext ==
    \/ \E p \in Procs : Toggle(p) /\ Serial'
    \/ \E p \in Procs, e \in Events : LiveAttendance(p, e) /\ Serial'
    \/ \E p \in Procs : Winner(p) /\ Serial'
    \/ \E p \in Procs : Finalize(p) /\ Serial'
    \/ \E p \in Procs : ReturnKeeping(p)

SeqSpec == Init /\ [][SeqNext]_vars

(* The same, against the durable store that accepts every insert. *)
SeqSpecNoUnique == InitNoUnique /\ [][SeqNext]_vars

---------------------------------------------------------------------------
(* Properties *)

(* Handler p takes a step from `label`. *)
StepsFrom(p, label) == pc[p] = label /\ pc'[p] # label

InBranch == {"t_sadd", "t_hset_in", "t_hdel"}
OutBranch == {"t_srem", "t_hset_out"}

(* C1: when the batch insert of finalize_event_attendance fails, the       *)
(* caller is answered with an error, and no step of that call (neither     *)
(* its read of the keys nor the failed insert) has changed the checkedIn   *)
(* set, the checkInTimes or the checkOutTimes of any event.                *)
C1_FailedInsertKeepsKeys ==
    [][\A p \in Procs :
        /\ (pc[p] = "idle" /\ pc'[p] = "f_insert") => UNCHANGED redis
        /\ (pc[p] = "f_insert" /\ pc'[p] = "done") =>
              /\ ret'[p].kind = "error"
              /\ ret'[p].status_code = 500
              /\ UNCHANGED <<redis, attendance>>]_vars

(* A failed insert has just been answered, and the keys of the event       *)
(* still hold what the call read.                                          *)
C1_Witness ==
    \E p \in Procs :
        /\ pc[p] = "done"
        /\ ret[p].kind = "error"
        /\ ret[p].detail = MySQLFailure
        /\ checkedIn[ev[p]] # {}
        /\ DOMAIN checkInTimes[ev[p]] = DOMAIN snap[p].records
        /\ DOMAIN checkOutTimes[ev[p]] # {}

(* A toggle of student key k at event e is in progress. *)
Toggling(e, k) ==
    \E q \in Procs : pc[q] \in {"t_sismember"} \cup InBranch \cup OutBranch
                         /\ ev[q] = e /\ Str(stu[q]) = k

(* C2: the step that completes a successful finalize of E leaves           *)
(* get_live_attendance(E).checked_in_count at 0 and every student with a   *)
(* check-in time on record for E (left there by a toggle that has          *)
(* completed) with exactly one row of event_attendance for E.              *)
C2_FinalizeReduces ==
    [][\A p \in Procs :
        (pc[p] \in {"f_delete", "f_delete_empty"} /\ pc'[p] = "done"
            /\ ret'[p].kind = "finalized") =>
              /\ LiveResult(ev[p], LivePipeline(ev[p])).checked_in_count' = 0
              /\ \A k \in DOMAIN checkInTimes[ev[p]] :
                    ~Toggling(ev[p], k) =>
                        CountOf(attendance', ev[p], ParseInt(k)) = 1]_vars

(* C3: finalize builds one record for every key of the checkInTimes it     *)
(* reads and for no other student, a student it reads as a member of       *)
(* checkedIn gets a null CheckOutTime, and the insert adds exactly these   *)
(* records to event_attendance.                                            *)
C3_FinalizePersistsHistory ==
    [][\A p \in Procs :
        /\ (pc[p] = "idle" /\ pc'[p] = "f_insert") =>
              LET e == ev'[p]
                  recs == snap'[p].records
              IN /\ DOMAIN recs = DOMAIN checkInTimes[e]
                 /\ \A k \in DOMAIN recs :
                       /\ recs[k].EventID = e
                       /\ recs[k].StudentID = ParseInt(k)
                       /\ k \in checkedIn[e] => recs[k].CheckOutTime = NULL
        /\ (pc[p] = "f_insert" /\ pc'[p] = "f_delete") =>
              attendance' = attendance (+) RowsBag(snap[p].records)]_vars

(* C4: a toggle that finds the student in checkedIn removes the student    *)
(* from the set, then sets the student's checkOutTimes entry to the UTC    *)
(* second read when the call began and answers CHECKED OUT; none of its    *)
(* steps changes checkInTimes.                                             *)
C4_CheckOutBranch ==
    [][\A p \in Procs :
        LET e == ev[p]
            k == Str(stu[p])
        IN /\ (pc[p] = "idle" /\ pc'[p] = "t_sismember") =>
                 now'[p] = IsoFormat(clock')
           /\ (pc[p] = "t_sismember" /\ pc'[p] # pc[p]) =>
                 (pc'[p] = "t_srem" <=> k \in checkedIn[e])
           /\ StepsFrom(p, "t_srem") =>
                 /\ k \notin checkedIn'[e]
                 /\ pc'[p] = "t_hset_out"
                 /\ UNCHANGED <<checkInTimes, checkOutTimes>>
           /\ StepsFrom(p, "t_hset_out") =>
                 /\ k \in DOMAIN checkOutTimes'[e]
                 /\ checkOutTimes'[e][k] = now[p]
                 /\ pc'[p] = "done"
                 /\ ret'[p].status = "CHECKED OUT"
                 /\ UNCHANGED <<checkInTimes, checkedIn>>]_vars

(* A check-out has just been answered: the student is out of the set,      *)
(* with a check-in time and the check-out time of this call on record.     *)
C4_Witness ==
    \E p \in Procs :
        /\ pc[p] = "done"
        /\ ret[p].kind = "status"
        /\ ret[p].status = "CHECKED OUT"
        /\ Str(stu[p]) \notin checkedIn[ev[p]]
        /\ Str(stu[p]) \in DOMAIN checkInTimes[ev[p]]
        /\ checkOutTimes[ev[p]][Str(stu[p])] = now[p]
        /\ now[p] > checkInTimes[ev[p]][Str(stu[p])]

(* C5: a toggle that finds the student out of checkedIn adds the student   *)
(* to the set, then sets the student's checkInTimes entry to the UTC       *)
(* second read when the call began, then removes the student's             *)
(* checkOutTimes entry and answers CHECKED IN: as the call completes, no   *)
(* check-out time is on record for the student.                            *)
C5_CheckInBranch ==
    [][\A p \in Procs :
        LET e == ev[p]
            k == Str(stu[p])
        IN /\ (pc[p] = "idle" /\ pc'[p] = "t_sismember") =>
                 now'[p] = IsoFormat(clock')
           /\ (pc[p] = "t_sismember" /\ pc'[p] # pc[p]) =>
                 (pc'[p] = "t_sadd" <=> k \notin checkedIn[e])
           /\ StepsFrom(p, "t_sadd") =>
                 /\ k \in checkedIn'[e]
                 /\ pc'[p] = "t_hset_in"
                 /\ UNCHANGED <<checkInTimes, checkOutTimes>>
           /\ StepsFrom(p, "t_hset_in") =>
                 /\ k \in DOMAIN checkInTimes'[e]
                 /\ checkInTimes'[e][k] = now[p]
                 /\ pc'[p] = "t_hdel"
                 /\ UNCHANGED <<checkedIn, checkOutTimes>>
           /\ StepsFrom(p, "t_hdel") =>
                 /\ k \notin DOMAIN checkOutTimes'[e]
                 /\ pc'[p] = "done"
                 /\ ret'[p].status = "CHECKED IN"
                 /\ UNCHANGED <<checkedIn, checkInTimes>>]_vars

(* A second check-in is about to clear the check-out time of the           *)
(* student's earlier check-out, which is older than the new check-in.      *)
C5_Witness ==
    \E p \in Procs :
        /\ pc[p] = "t_hdel"
        /\ Str(stu[p]) \in checkedIn[ev[p]]
        /\ Str(stu[p]) \in DOMAIN checkOutTimes[ev[p]]
        /\ checkInTimes[ev[p]][Str(stu[p])] = now[p]
        /\ checkOutTimes[ev[p]][Str(stu[p])] < now[p]

(* C6: when requests are served one after the other, a toggle of (E, S)    *)
(* that directly follows a toggle of (E, S) answers the other of the two   *)
(* statuses CHECKED IN and CHECKED OUT; so the third of three successive   *)
(* toggles answers as the first did, and no repeated toggle is suppressed. *)
C6_TogglesAlternate ==
    [][\A p \in Procs :
        (pc[p] \in {"t_hset_out", "t_hdel"} /\ pc'[p] = "done") =>
            /\ ret'[p].status \in {"CHECKED IN", "CHECKED OUT"}
            /\ (ret[p].kind = "status" /\ ret[p].event_id = ev[p]
                  /\ ret[p].student_id = stu[p]) =>
                  ret'[p].status # ret[p].status]_vars

(* The third of three successive toggles of one student is checking the    *)
(* student in again, after a check-in and the check-out last answered.     *)
C6_Witness ==
    \E p \in Procs :
        /\ calls = 3
        /\ pc[p] = "t_hdel"
        /\ ret[p].kind = "status"
        /\ ret[p].status = "CHECKED OUT"
        /\ ret[p].event_id = ev[p]
        /\ ret[p].student_id = stu[p]
        /\ Str(stu[p]) \in DOMAIN checkOutTimes[ev[p]]

(* C7: no update is lost among concurrent toggles of one student and       *)
(* event: two toggles of (E, S) in progress at once never both check the   *)
(* student in, nor both check the student out.                             *)
C7_NoLostToggle ==
    \A p, q \in Procs :
        (p # q /\ ev[p] = ev[q] /\ stu[p] = stu[q]) =>
            /\ ~(pc[p] \in InBranch /\ pc[q] \in InBranch)
            /\ ~(pc[p] \in OutBranch /\ pc[q] \in OutBranch)

(* C8: in every answer of get_live_attendance(E), checked_in_count is the  *)
(* number of entries of students, and the entries are those of the         *)
(* members of checkedIn[E] at the instant of the read, one per member.     *)
C8_LiveSnapshotConsistent ==
    \A p \in Procs :
        (pc[p] = "done" /\ ret[p].kind = "live") =>
            /\ ret[p].checked_in_count = Cardinality(DOMAIN ret[p].students)
            /\ DOMAIN ret[p].students = checkedIn[ret[p].event_id]
            /\ \A m \in DOMAIN ret[p].students :
                  Str(ret[p].students[m].student_id) = m

(* A snapshot of an event with a student checked in, taken while a toggle  *)
(* of that event is between its SADD and its HSET.                         *)
C8_Witness ==
    \E p, q \in Procs :
        /\ pc[p] = "done"
        /\ ret[p].kind = "live"
        /\ ret[p].checked_in_count = 2
        /\ pc[q] = "t_hset_in"
        /\ ev[q] = ret[p].event_id

(* C9: the answer of the random-winner request has no student exactly      *)
(* when checkedIn[E] is empty at the instant of the selection, and a       *)
(* student it names is a member of checkedIn[E] at that instant.           *)
C9_WinnerIffCheckedIn ==
    \A p \in Procs :
        (pc[p] = "done" /\ ret[p].kind = "winner") =>
            /\ ret[p].student_id = NULL <=> checkedIn[ret[p].event_id] = {}
            /\ ret[p].student_id # NULL =>
                  Str(ret[p].student_id) \in checkedIn[ret[p].event_id]

(* A winner has been drawn from an event that also has a student who       *)
(* checked in and out again.                                               *)
C9_Witness ==
    \E p \in Procs :
        /\ pc[p] = "done"
        /\ ret[p].kind = "winner"
        /\ ret[p].student_id # NULL
        /\ Cardinality(checkedIn[ret[p].event_id]) = 1
        /\ Cardinality(DOMAIN checkOutTimes[ret[p].event_id]) = 1

(* C10: no step of the random-winner request changes checkedIn,            *)
(* checkInTimes, checkOutTimes or event_attendance.                        *)
C10_WinnerReadOnly ==
    [][\A p \in Procs :
        (\/ (pc[p] = "idle" /\ pc'[p] = "w_srandmember")
         \/ (pc[p] = "idle" /\ pc'[p] = "done" /\ ret'[p].kind = "winner")
         \/ StepsFrom(p, "w_srandmember")) =>
            UNCHANGED <<redis, attendance>>]_vars

(* A winner has been answered and is still checked in. *)
C10_Witness ==
    \E p \in Procs :
        /\ pc[p] = "done"
        /\ ret[p].kind = "winner"
        /\ ret[p].student_id # NULL
        /\ Str(ret[p].student_id) \in checkedIn[ret[p].event_id]
        /\ ret[p].checked_in_count = 2

(* A finalize begins: the step that reads the keys of the event. *)
FinalizeBegins(p) == pc[p] = "idle" /\ pc'[p] \in {"f_insert", "f_delete_empty"}

(* The three keys of event e do not exist. *)
KeysEmpty(e) ==
    /\ checkedIn[e] = {}
    /\ DOMAIN checkInTimes[e] = {}
    /\ DOMAIN checkOutTimes[e] = {}

(* C11: a finalize that reads an empty checkInTimes[E] goes to the         *)
(* deletion of the three keys of E, which leaves none of them, changes     *)
(* no row of event_attendance and answers records_persisted = 0 with the   *)
(* message that no attendance data was found, not an error.                *)
C11_EmptyFinalize ==
    [][\A p \in Procs :
        /\ (FinalizeBegins(p) /\ DOMAIN checkInTimes[ev'[p]] = {}) =>
              /\ pc'[p] = "f_delete_empty"
              /\ UNCHANGED <<redis, attendance>>
        /\ StepsFrom(p, "f_delete_empty") =>
              /\ pc'[p] = "done"
              /\ ret'[p].kind = "finalized"
              /\ ret'[p].event_id = ev[p]
              /\ ret'[p].records_persisted = 0
              /\ ret'[p].message = "No attendance data found for this event"
              /\ attendance' = attendance
              /\ KeysEmpty(ev[p])']_vars

(* A finalize of an event without check-in times has answered 0 records    *)
(* and has deleted the set a check-in in progress had just created.        *)
C11_Witness ==
    \E p, q \in Procs :
        /\ pc[p] = "done"
        /\ ret[p].kind = "finalized"
        /\ ret[p].records_persisted = 0
        /\ pc[q] = "t_hset_in"
        /\ ev[q] = ev[p]
        /\ KeysEmpty(ev[p])
        /\ attendance = EmptyBag

(* C12: with requests served one after the other, a successful finalize    *)
(* of E leaves none of the keys of E, only a toggle of E creates them      *)
(* again, and a finalize of E that finds none of them (so a second         *)
(* finalize with no toggle of E in between) builds no record, answers      *)
(* records_persisted = 0 and leaves event_attendance as it was.            *)
C12_SecondFinalizePersistsNothing ==
    [][/\ \A p \in Procs :
            /\ (pc[p] \in {"f_delete", "f_delete_empty"} /\ pc'[p] = "done"
                  /\ ret'[p].kind = "finalized") => KeysEmpty(ev[p])'
            /\ (FinalizeBegins(p) /\ KeysEmpty(ev'[p])) =>
                  /\ pc'[p] = "f_delete_empty"
                  /\ DOMAIN snap'[p].records = {}
            /\ (FinalizeBegins(p) /\ ret[p].kind = "finalized"
                  /\ ret[p].event_id = ev'[p]) => pc'[p] = "f_delete_empty"
            /\ StepsFrom(p, "f_delete_empty") =>
                  /\ ret'[p].kind = "finalized"
                  /\ ret'[p].records_persisted = 0
                  /\ attendance' = attendance
       /\ \A e \in Events :
            (KeysEmpty(e) /\ ~KeysEmpty(e)') =>
                \E p \in Procs : pc[p] \in InBranch \cup OutBranch /\ ev[p] = e]_vars

(* The second of two successive finalizes of an event has answered 0       *)
(* records; the rows the first one inserted are in event_attendance.       *)
C12_Witness ==
    \E p \in Procs :
        /\ calls = 3
        /\ pc[p] = "done"
        /\ ret[p].kind = "finalized"
        /\ ret[p].records_persisted = 0
        /\ \E s \in Students : CountOf(attendance, ev[p], s) = 1
        /\ KeysEmpty(ev[p])

(* C13: the batch insert of a finalize is all or nothing: the step either  *)
(* adds every record of the batch to event_attendance and goes on, or      *)
(* answers a failure and leaves event_attendance exactly as it was.        *)
C13_FailedInsertPersistsNothing ==
    [][\A p \in Procs :
        StepsFrom(p, "f_insert") =>
            \/ /\ pc'[p] = "f_delete"
               /\ attendance' = attendance (+) RowsBag(snap[p].records)
            \/ /\ pc'[p] = "done"
               /\ ret'[p] = FinalizeError(MySQLFailure)
               /\ attendance' = attendance]_vars

(* The insert of a batch of two records has failed, and neither student    *)
(* of the batch has a row.                                                 *)
C13_Witness ==
    \E p \in Procs :
        /\ pc[p] = "done"
        /\ ret[p] = FinalizeError(MySQLFailure)
        /\ Cardinality(DOMAIN snap[p].records) = 2
        /\ \A k \in DOMAIN snap[p].records :
              CountOf(attendance, ev[p], ParseInt(k)) = 0

(* The second of the wall clock's last reading, as finalize stores it. *)
LastToggleTime == FromIsoFormat(IsoFormat(clock))

(* C14: with requests served one after the other, a finalize of E builds   *)
(* one record per student with a check-in time on record, carrying that    *)
(* time, and a check-out time exactly for the students who are not in      *)
(* checkedIn[E]; when the finalize directly follows a toggle of (E, S),    *)
(* the record of S carries the second of that toggle as its check-in time  *)
(* and no check-out time if the toggle checked S in, and as its check-out  *)
(* time if it checked S out; the insert leaves one row per student.        *)
C14_RecordOfLatestCheckIn ==
    [][\A p \in Procs :
        /\ FinalizeBegins(p) =>
              LET e == ev'[p]
                  recs == snap'[p].records
              IN /\ \A k \in DOMAIN recs :
                       /\ recs[k].CheckInTime = FromIsoFormat(checkInTimes[e][k])
                       /\ recs[k].CheckOutTime = NULL <=> k \in checkedIn[e]
                       /\ recs[k].CheckOutTime # NULL =>
                             recs[k].CheckOutTime >= recs[k].CheckInTime
                       /\ \A j \in DOMAIN recs :
                             recs[j].StudentID = recs[k].StudentID => j = k
                 /\ (ret[p].kind = "status" /\ ret[p].event_id = e) =>
                       LET k == Str(ret[p].student_id)
                       IN /\ k \in DOMAIN recs
                          /\ ret[p].status = "CHECKED IN" =>
                                /\ recs[k].CheckInTime = LastToggleTime
                                /\ recs[k].CheckOutTime = NULL
                          /\ ret[p].status = "CHECKED OUT" =>
                                recs[k].CheckOutTime = LastToggleTime
        /\ (pc[p] = "f_insert" /\ pc'[p] = "f_delete") =>
              \A k \in DOMAIN snap[p].records :
                  CountOf(attendance', ev[p], ParseInt(k)) = 1]_vars

(* The fourth request, a finalize after three toggles of one student of    *)
(* which the last checked the student in during a later second than the    *)
(* first, has inserted the row: that second, and no check-out time.        *)
C14_Witness ==
    \E p \in Procs :
        /\ calls = 4
        /\ usedEvents = 1
        /\ usedStudents = 1
        /\ pc[p] = "f_delete"
        /\ ret[p].kind = "status"
        /\ ret[p].status = "CHECKED IN"
        /\ LastToggleTime > 0
        /\ attendance = SetToBag({[EventID |-> ev[p],
                                   StudentID |-> ret[p].student_id,
                                   CheckInTime |-> LastToggleTime,
                                   CheckOutTime |-> NULL]})

(* C15: a finalize whose insert is refused by the uniqueness constraint    *)
(* because every record of its batch is already a row of event_attendance  *)
(* (another finalize of the event inserted them) is not answered with an   *)
(* error.                                                                  *)
C15_DuplicateIsAlreadyFinalized ==
    [][\A p \in Procs :
        (/\ StepsFrom(p, "f_insert")
         /\ uniqueKey
         /\ \A k \in DOMAIN snap[p].records :
               snap[p].records[k] \in BagToSet(attendance)) =>
            ret'[p].kind # "error"]_vars

(* Handler p takes a step of student_checkin_edit on event e. *)
ToggleStep(p, e) ==
    \/ pc[p] = "idle" /\ pc'[p] = "t_sismember" /\ ev'[p] = e
    \/ pc[p] \in {"t_sismember"} \cup InBranch \cup OutBranch
         /\ pc'[p] # pc[p] /\ ev[p] = e

(* C16: no step of student_checkin_edit(E, S) changes the checkedIn set,   *)
(* the checkInTimes or the checkOutTimes of an event other than E, nor a   *)
(* row of event_attendance.                                                *)
C16_ToggleTouchesOnlyItsEvent ==
    [][\A p \in Procs, e \in Events :
        ToggleStep(p, e) =>
            /\ \A o \in Events \ {e} :
                  /\ checkedIn'[o] = checkedIn[o]
                  /\ checkInTimes'[o] = checkInTimes[o]
                  /\ checkOutTimes'[o] = checkOutTimes[o]
            /\ attendance' = attendance]_vars

(* A check-in at the second event has been answered; the first event has   *)
(* another student checked in, with that student's check-in time.          *)
C16_Witness ==
    \E p \in Procs :
        /\ pc[p] = "done"
        /\ ret[p].kind = "status"
        /\ ret[p].status = "CHECKED IN"
        /\ ev[p] = 2
        /\ checkedIn[2] = {Str(stu[p])}
        /\ checkedIn[1] # {}
        /\ checkedIn[1] # checkedIn[2]
        /\ DOMAIN checkInTimes[1] = checkedIn[1]

(* C17: the answer of get_live_attendance(E) has an entry for every member *)
(* of checkedIn[E], also for a member without a field in checkInTimes[E]:  *)
(* the check_in_time of such a member is the sentinel "N/A", that of any   *)
(* other member is the time on record.                                     *)
C17_MissingTimeIsSentinel ==
    \A p \in Procs :
        (pc[p] = "done" /\ ev[p] # 0 /\ stu[p] = 0 /\ snap[p] = NoSnap) =>
            /\ ret[p].kind = "live"
            /\ \A m \in checkedIn[ev[p]] :
                  /\ m \in DOMAIN ret[p].students
                  /\ ret[p].students[m].student_id = ParseInt(m)
                  /\ ret[p].students[m].check_in_time =
                        IF m \in DOMAIN checkInTimes[ev[p]]
                        THEN checkInTimes[ev[p]][m] ELSE NA

(* A snapshot lists a student with the sentinel, next to a student with    *)
(* a check-in time.                                                        *)
C17_Witness ==
    \E p \in Procs :
        /\ pc[p] = "done"
        /\ ret[p].kind = "live"
        /\ \E m \in DOMAIN ret[p].students :
              ret[p].students[m].check_in_time = NA
        /\ \E m \in DOMAIN ret[p].students :
              ret[p].students[m].check_in_time # NA

(* A snapshot of event e is answered by handler p directly after a toggle  *)
(* that checked student s in to e (requests served one after the other).   *)
SnapshotAfterCheckIn(p, e, s) ==
    /\ pc[p] = "idle"
    /\ pc'[p] = "done"
    /\ ret'[p].kind = "live"
    /\ ret'[p].event_id = e
    /\ ret[p].kind = "status"
    /\ ret[p].status = "CHECKED IN"
    /\ ret[p].event_id = e
    /\ ret[p].student_id = s

(* C18 as stated: the snapshot that directly follows a check-in of S lists *)
(* S with a check_in_time that, as an instant, is not earlier than the     *)
(* instant the toggle was called and not later than that of the snapshot.  *)
C18_CheckInTimeNotBeforeCall ==
    [][\A p \in Procs, e \in Events, s \in Students :
        SnapshotAfterCheckIn(p, e, s) =>
            /\ Str(s) \in DOMAIN ret'[p].students
            /\ ret'[p].students[Str(s)].check_in_time # NA
            /\ FromIsoFormat(ret'[p].students[Str(s)].check_in_time) >= clock
            /\ FromIsoFormat(ret'[p].students[Str(s)].check_in_time) <= clock']_vars

(* C18, amended: the snapshot that directly follows a check-in of S lists  *)
(* S with the check_in_time of that toggle, which is the start of the      *)
(* second in which the toggle read the clock: not later than the snapshot  *)
(* and less than one second earlier than the call.                         *)
C18_CheckInTimeWithinCallSecond ==
    [][\A p \in Procs, e \in Events, s \in Students :
        SnapshotAfterCheckIn(p, e, s) =>
            /\ Str(s) \in DOMAIN ret'[p].students
            /\ ret'[p].students[Str(s)].check_in_time # NA
            /\ FromIsoFormat(ret'[p].students[Str(s)].check_in_time) <= clock
            /\ clock - FromIsoFormat(ret'[p].students[Str(s)].check_in_time)
                  < TicksPerSecond]_vars

(* A snapshot directly after a check-in called in the second half of a     *)
(* second lists the student with the start of that second.                 *)
C18_Witness ==
    \E p \in Procs :
        /\ pc[p] = "done"
        /\ ret[p].kind = "live"
        /\ calls = 2
        /\ clock % TicksPerSecond # 0
        /\ \E m \in DOMAIN ret[p].students :
              /\ ret[p].students[m].check_in_time # NA
              /\ FromIsoFormat(ret[p].students[m].check_in_time) < clock
              /\ ret[p].students[m].check_in_time = IsoFormat(clock)

(* The students the keys of event e hold, by the key of their fields. *)
Held(e) == checkedIn[e] \cup DOMAIN checkInTimes[e] \cup DOMAIN checkOutTimes[e]

(* C20: a step that deletes keys of E that are not empty is taken only     *)
(* when event_attendance has a row for every student these keys hold       *)
(* (here: every student they hold whose toggle is not still in progress).  *)
C20_DeleteOnlyWhatIsPersisted ==
    [][\A p \in Procs :
        (StepsFrom(p, "f_delete") \/ StepsFrom(p, "f_delete_empty")) =>
            \A e \in Events :
                (~KeysEmpty(e) /\ KeysEmpty(e)') =>
                    \A k \in Held(e) :
                        ~Toggling(e, k) =>
                            CountOf(attendance, e, ParseInt(k)) >= 1]_vars

(* C21: with the uniqueness constraint no (event, student) ever has two    *)
(* rows of event_attendance; without it, two finalizes of E that both      *)
(* read the keys before either deletes them both insert their batch, and   *)
(* a student has two rows (C21_Witness).                                   *)
C21_DuplicatesOnlyWithoutConstraint ==
    uniqueKey =>
        \A e \in Events, s \in Students : CountOf(attendance, e, s) <= 1

(* Two finalizes of one event have both inserted the same record and       *)
(* neither has deleted the keys yet: the student has two rows.             *)
C21_Witness ==
    \E p, q \in Procs :
        /\ p # q
        /\ ~uniqueKey
        /\ pc[p] = "f_delete"
        /\ pc[q] = "f_delete"
        /\ ev[p] = ev[q]
        /\ snap[p].records = snap[q].records
        /\ \E k \in DOMAIN snap[p].records :
              /\ attendance[snap[p].records[k]] = 2
              /\ CountOf(attendance, ev[p], ParseInt(k)) = 2

(* A finalize deletes the keys of event e in this step. *)
FinalizeDeletes(e) ==
    \E p \in Procs :
        /\ StepsFrom(p, "f_delete") \/ StepsFrom(p, "f_delete_empty")
        /\ ev[p] = e

(* C22 as stated: apart from the deletion by a finalize of E, no step      *)
(* removes a field from checkInTimes[E] or from checkOutTimes[E].          *)
C22_TimesNeverPruned ==
    [][\A e \in Events :
        ~FinalizeDeletes(e) =>
            /\ DOMAIN checkInTimes[e] \subseteq DOMAIN checkInTimes'[e]
            /\ DOMAIN checkOutTimes[e] \subseteq DOMAIN checkOutTimes'[e]]_vars

(* C22, amended: apart from the deletion by a finalize of E, no step       *)
(* removes a field from checkInTimes[E], and the only step that removes a  *)
(* field from checkOutTimes[E] is the HDEL of a check-in of E, which       *)
(* removes the field of the student who checks in and no other; the        *)
(* fields of students who are no longer in checkedIn[E] stay.              *)
C22_OnlyRecheckInClearsCheckOut ==
    [][\A e \in Events :
        ~FinalizeDeletes(e) =>
            /\ DOMAIN checkInTimes[e] \subseteq DOMAIN checkInTimes'[e]
            /\ \A k \in DOMAIN checkOutTimes[e] \ DOMAIN checkOutTimes'[e] :
                  \E p \in Procs :
                      /\ StepsFrom(p, "t_hdel")
                      /\ ev[p] = e
                      /\ Str(stu[p]) = k]_vars

(* A student who checked in and out is out of the set with both times on   *)
(* record, after a check-in of another student at the event has completed. *)
C22_Witness ==
    \E p \in Procs, e \in Events, k \in {Str(s) : s \in Students} :
        /\ pc[p] = "done"
        /\ ret[p].kind = "status"
        /\ ret[p].status = "CHECKED IN"
        /\ ev[p] = e
        /\ Str(stu[p]) # k
        /\ k \notin checkedIn[e]
        /\ k \in DOMAIN checkInTimes[e]
        /\ k \in DOMAIN checkOutTimes[e]

(* No request is in progress. *)
Quiescent == \A p \in Procs : pc[p] = "idle"

(* C23: whenever no request is in progress, every student with a field in  *)
(* checkOutTimes[E] has a field in checkInTimes[E], and the check-out time *)
(* is not earlier than the check-in time.                                  *)
C23_CheckOutAfterCheckIn ==
    Quiescent =>
        \A e \in Events :
            \A k \in DOMAIN checkOutTimes[e] :
                /\ k \in DOMAIN checkInTimes[e]
                /\ checkOutTimes[e][k] >= checkInTimes[e][k]

(* C24: every step leaves each row that event_attendance has, as often as  *)
(* it has it; the only step that changes event_attendance is the insert    *)
(* of a finalize, and it adds the records of that finalize's batch.        *)
C24_RecordsOnlyAddedByFinalize ==
    [][/\ attendance \sqsubseteq attendance'
       /\ attendance' # attendance =>
             \E p \in Procs :
                 /\ pc[p] = "f_insert"
                 /\ pc'[p] = "f_delete"
                 /\ attendance' = attendance (+) RowsBag(snap[p].records)]_vars

(* event_attendance has a row of the first event, and a finalize of the    *)
(* second event has just inserted its batch next to it.                    *)
C24_Witness ==
    \E p \in Procs, s \in Students :
        /\ pc[p] = "f_delete"
        /\ ev[p] = 2
        /\ CountOf(attendance, 1, s) = 1
        /\ \E t \in Students : CountOf(attendance, 2, t) = 1

(* C25: with requests served one after the other, a finalize that retries  *)
(* after an insert failure (all requests so far naming one event) finds a  *)
(* batch that the durable store, once available, accepts.                  *)
C25_RetryCanSucceed ==
    \A p \in Procs :
        (/\ pc[p] = "f_insert"
         /\ usedEvents = 1
         /\ ret[p] = FinalizeError(MySQLFailure)) =>
            ~(uniqueKey /\ Duplicates(attendance, snap[p].records))

(* C26: when a finalize of E answers success, every student whose          *)
(* check-in had completed before the keys were deleted (the student is in  *)
(* checkedIn[E] with a check-in time, and no toggle of the student is in   *)
(* progress) has a row of event_attendance for E or still has a field in   *)
(* checkInTimes[E].                                                        *)
C26_NoCheckInLostToFinalize ==
    [][\A p \in Procs :
        (/\ pc[p] \in {"f_delete", "f_delete_empty"}
         /\ pc'[p] = "done"
         /\ ret'[p].kind = "finalized") =>
            \A k \in checkedIn[ev[p]] \cap DOMAIN checkInTimes[ev[p]] :
                ~Toggling(ev[p], k) =>
                    \/ CountOf(attendance', ev[p], ParseInt(k)) >= 1
                    \/ k \in DOMAIN checkInTimes'[ev[p]]]_vars

(* C27: with requests served one after the other, whenever no request is   *)
(* in progress every member of checkedIn[E] has a field in checkInTimes[E] *)
(* and none in checkOutTimes[E].                                           *)
C27_MembersHaveCheckInTimeOnly ==
    Quiescent =>
        \A e \in Events :
            \A m \in checkedIn[e] :
                /\ m \in DOMAIN checkInTimes[e]
                /\ m \notin DOMAIN checkOutTimes[e]

(* Between two requests: one student is a member with a check-in time and  *)
(* no check-out time, another has checked in and out and is no member.     *)
C27_Witness ==
    /\ Quiescent
    /\ \E e \in Events, m, k \in {Str(s) : s \in Students} :
          /\ m # k
          /\ checkedIn[e] = {m}
          /\ DOMAIN checkInTimes[e] = {m, k}
          /\ DOMAIN checkOutTimes[e] = {k}

(* C28: with requests served one after the other and every insert          *)
(* accepted, the insert of a finalize of E that directly follows a         *)
(* check-in of S to E leaves S with no more than one row of                *)
(* event_attendance for E.                                                 *)
C28_OneRowPerStudent ==
    [][\A p \in Procs :
        (/\ pc[p] = "f_insert"
         /\ pc'[p] = "f_delete"
         /\ ret[p].kind = "status"
         /\ ret[p].status = "CHECKED IN"
         /\ ret[p].event_id = ev[p]) =>
            CountOf(attendance', ev[p], ret[p].student_id) <= 1]_vars

(* C29: when a finalize ends with an error after its insert step,          *)
(* event_attendance has no row for the students of its batch.              *)
C29_RaisingFinalizeLeavesNoRows ==
    [][\A p \in Procs :
        (/\ StepsFrom(p, "f_delete")
         /\ pc'[p] = "done"
         /\ ret'[p].kind = "error") =>
            \A k \in DOMAIN snap[p].records :
                CountOf(attendance', ev[p], ParseInt(k)) = 0]_vars

(* C30: while no finalize is in progress, no answer of                     *)
(* get_live_attendance lists a student with the sentinel "N/A".            *)
C30_NoSentinelFromToggles ==
    \A p \in Procs :
        (/\ pc[p] = "done"
         /\ ret[p].kind = "live"
         /\ \A q \in Procs : pc[q] \notin {"f_insert", "f_delete", "f_delete_empty"}) =>
            \A m \in DOMAIN ret[p].students :
                ret[p].students[m].check_in_time # NA

=============================================================================
